---- MODULE Spec2Model ----
(***************************************************************************)
(* Model of the structural data-region locator of ai-web-scraper:          *)
(* app/navigation/Document.py, app/navigation/ExtendedTag.py,              *)
(* app/ai/agents/DataLocator.py and the part of app/AppManager.py that     *)
(* drives them.                                                            *)
(*                                                                         *)
(* A string is a sequence of one-character strings.  An optional value is  *)
(* a sequence of length 0 (None) or 1.  A tree is a sequence of element    *)
(* records in document (pre-)order; node k's parent is the index           *)
(* tree[k].parent (0 for the root).  An element holds at most one text     *)
(* child, placed before its element children.                              *)
(***************************************************************************)
EXTENDS Integers, Sequences, FiniteSets

----------------------------------------------------------------------------
(* Python str operations used by the code *)

MinOf(S) == CHOOSE x \in S : \A y \in S : x <= y

MaxOf(S) == CHOOSE x \in S : \A y \in S : x >= y

IsSpace(c) == c = " "

\* str.lower(), per character
LowerChar(c) == IF c = "A" THEN "a" ELSE IF c = "B" THEN "b" ELSE IF c = "C" THEN "c" ELSE c

lower(s) == [i \in 1..Len(s) |-> LowerChar(s[i])]

\* str.strip(): surrounding whitespace removed
strip(s) ==
    LET keep == {i \in 1..Len(s) : ~IsSpace(s[i])}
    IN IF keep = {} THEN <<>> ELSE SubSeq(s, MinOf(keep), MaxOf(keep))

\* str.rstrip('.'): every trailing period removed
rstrip_dots(s) ==
    LET keep == {i \in 1..Len(s) : s[i] # "."}
    IN IF keep = {} THEN <<>> ELSE SubSeq(s, 1, MaxOf(keep))

\* str.endswith('...')
endswith_ellipsis(s) ==
    Len(s) >= 3 /\ SubSeq(s, Len(s) - 2, Len(s)) = <<".", ".", ".">>

\* Python's "sub in text" for strings
contains(text, sub) ==
    \E i \in 0..(Len(text) - Len(sub)) : SubSeq(text, i + 1, i + Len(sub)) = sub

\* str(n) of a non-negative int
RECURSIVE str_int(_)
str_int(n) ==
    LET digit == <<"0", "1", "2", "3", "4", "5", "6", "7", "8", "9">>[(n % 10) + 1]
    IN IF n < 10 THEN <<digit>> ELSE Append(str_int(n \div 10), digit)

RECURSIVE FlattenSeq(_)
FlattenSeq(ss) == IF ss = <<>> THEN <<>> ELSE Head(ss) \o FlattenSeq(Tail(ss))

\* the elements of the set of indices S as an increasing sequence
RECURSIVE SortedSeq(_)
SortedSeq(S) == IF S = {} THEN <<>> ELSE <<MinOf(S)>> \o SortedSeq(S \ {MinOf(S)})

----------------------------------------------------------------------------
(* The tree of bs4 elements *)

None == <<>>

Some(x) == <<x>>

NoAttrs == [k \in {} |-> ""]

Attr(key, value) == [k \in {key} |-> value]

Node(p, n, a, t) == [parent |-> p, name |-> n, attrs |-> a, text |-> t]

\* tag.append(child) where tag's subtree ends the tree: child becomes its last child
append(tree, at, sub) ==
    tree \o [i \in 1..Len(sub) |->
               [sub[i] EXCEPT !.parent = IF @ = 0 THEN at ELSE @ + Len(tree)]]

RECURSIVE append_all(_, _, _)
append_all(tree, at, subs) ==
    IF subs = <<>> THEN tree ELSE append_all(append(tree, at, Head(subs)), at, Tail(subs))

\* an element with attributes a, text child t (None or Some(string)) and child subtrees kids
El(n, a, t, kids) == append_all(<<Node(0, n, a, t)>>, 1, kids)

\* the last index of the subtree rooted at i
SubtreeEnd(tree, i) ==
    LET later == {k \in (i + 1)..Len(tree) : tree[k].parent < i}
    IN IF later = {} THEN Len(tree) ELSE MinOf(later) - 1

\* the element children of i, in document order
children(tree, i) == SortedSeq({k \in 1..Len(tree) : tree[k].parent = i})

\* tag.parents: from the parent up to the root
RECURSIVE parents(_, _)
parents(tree, i) ==
    IF tree[i].parent = 0 THEN <<>> ELSE <<tree[i].parent>> \o parents(tree, tree[i].parent)

\* the subtree of i as a tree of its own
Subtree(tree, i, end) ==
    [k \in 1..(end - i + 1) |->
        IF k = 1 THEN [tree[i] EXCEPT !.parent = 0]
        ELSE [tree[i + k - 1] EXCEPT !.parent = @ - (i - 1)]]

\* copy(): deepcopy of the tag, detached from its tree
copy(tree, i) == Subtree(tree, i, SubtreeEnd(tree, i))

\* the nodes outside S, renumbered (what is left after decompose() of the subtrees in S)
Compact(tree, S) ==
    LET alive == SortedSeq((1..Len(tree)) \ S)
        newIndex(old) == CHOOSE k \in 1..Len(alive) : alive[k] = old
    IN [k \in 1..Len(alive) |->
          [tree[alive[k]] EXCEPT !.parent = IF @ = 0 THEN 0 ELSE newIndex(@)]]

\* bs4 Tag.string: the single text child, or the .string of a single element child
RECURSIVE TagString(_, _)
TagString(tree, i) ==
    LET kids == {k \in 1..Len(tree) : tree[k].parent = i}
    IN IF tree[i].text # None /\ kids = {} THEN tree[i].text
       ELSE IF tree[i].text = None /\ Cardinality(kids) = 1 THEN TagString(tree, i + 1)
       ELSE None

\* bs4 Tag.get_text(): every string in nodes from..to, concatenated in document order
TagText(tree, from, to) ==
    FlattenSeq([k \in 1..(to - from + 1) |->
                 IF tree[from + k - 1].text = None THEN <<>> ELSE tree[from + k - 1].text[1]])

\* bs4 Tag.__eq__ on two nodes of one tree: same name, same attributes, equal contents
\* recursively (end gives each node's subtree end)
SameSubtree(tree, end, i, j) ==
    /\ end[i] - i = end[j] - j
    /\ \A k \in 0..(end[i] - i) :
         /\ tree[i + k].name = tree[j + k].name
         /\ tree[i + k].attrs = tree[j + k].attrs
         /\ tree[i + k].text = tree[j + k].text
         /\ k = 0 \/ tree[i + k].parent - i = tree[j + k].parent - j

\* per node, the first node of the tree that is == to it
EqClasses(tree, end) ==
    [i \in 1..Len(tree) |-> CHOOSE j \in 1..i : SameSubtree(tree, end, j, i) /\ \A m \in 1..(j - 1) : ~SameSubtree(tree, end, m, i)]

\* BeautifulSoup.body: the first tag named body, 0 (None) if there is none
BodyOf(tree) ==
    LET bodies == {k \in 1..Len(tree) : tree[k].name = "body"}
    IN IF bodies = {} THEN 0 ELSE MinOf(bodies)

\* a parsed document: its nodes, its body, and per node the subtree end, the class under
\* Tag.__eq__ and the value of Tag.string
WithEnds(tree, end) ==
    [nodes |-> tree, body |-> BodyOf(tree), end |-> end, cls |-> EqClasses(tree, end),
     string |-> [i \in 1..Len(tree) |-> TagString(tree, i)]]

Soup(tree) == WithEnds(tree, [i \in 1..Len(tree) |-> SubtreeEnd(tree, i)])

\* element1 == element2 (Tag.__eq__)
TagEq(doc, i, j) == doc.cls[i] = doc.cls[j]

\* tag.descendants (elements), in document order
descendants(doc, i) == (i + 1)..doc.end[i]

----------------------------------------------------------------------------
(* app/navigation/ExtendedTag.py *)

WithoutKey(a, key) == [k \in (DOMAIN a) \ {key} |-> a[k]]

\* the comparison with the style left out as well as the id
is_identical_unstyled(self, other) ==
    IF self.name # other.name THEN FALSE
    ELSE WithoutKey(WithoutKey(self.attrs, "id"), "style") = WithoutKey(WithoutKey(other.attrs, "id"), "style")

\* True if two tags have the same name and attributes, ignoring the id
is_identical_to(self, other) ==
    IF self.name # other.name THEN FALSE
    ELSE WithoutKey(self.attrs, "id") = WithoutKey(other.attrs, "id")

TextTags == {"p", "ul", "ol", "h1", "h2", "h3", "h4", "h5", "h6"}

\* a text tag test that knows the list tags only
is_list_tag(self) == self.name \in {"ul", "ol"}

is_text_tag(self) == self.name \in TextTags

\* removes the style attribute from all direct children of the root of the tree
remove_children_style(tree) ==
    [k \in 1..Len(tree) |->
        IF tree[k].parent = 1 /\ "style" \in DOMAIN tree[k].attrs
        THEN [tree[k] EXCEPT !.attrs = WithoutKey(@, "style")]
        ELSE tree[k]]

\* self != other and self in other.descendants, both through Tag.__eq__
is_descendant_of(doc, self, other) ==
    /\ ~TagEq(doc, self, other)
    /\ \E d \in descendants(doc, other) : d = self \/ TagEq(doc, d, self)

\* the tag itself if it is a table, else its nearest table ancestor, else 0 (None)
find_parent_table(tree, i) ==
    IF tree[i].name = "table" THEN i
    ELSE LET ps == parents(tree, i)
             hits == {k \in 1..Len(ps) : tree[ps[k]].name = "table"}
         IN IF hits = {} THEN 0 ELSE ps[MinOf(hits)]

\* row.decompose() for each row of the sequence, in order
RECURSIVE decompose_all(_, _, _)
decompose_all(tree, rows, gone) ==
    IF rows = <<>> THEN gone
    ELSE decompose_all(tree, Tail(rows), gone \cup (Head(rows)..SubtreeEnd(tree, Head(rows))))

\* find_all('tr') below the root of the tree
find_all_tr(tree) == SortedSeq({k \in 2..Len(tree) : tree[k].name = "tr"})

\* the loop of lines 72-73 over rows[n + 1:], which keeps one row more
drop_rows_after(table_copy, rows, n) ==
    Compact(table_copy, decompose_all(table_copy, SubSeq(rows, n + 2, Len(rows)), {}))

\* lines 70-73 of get_first_rows, on the copy of the table
drop_rows(table_copy, rows, n) ==
    Compact(table_copy, decompose_all(table_copy, SubSeq(rows, n + 1, Len(rows)), {}))

\* a copy of the table with only the first n rows; None if the tag is no table
get_first_rows(tree, i, n) ==
    IF tree[i].name # "table" THEN None
    ELSE Some(drop_rows(copy(tree, i), find_all_tr(copy(tree, i)), n))

\* the elements below i whose .string is longer than nchars
long_strings(doc, i, nchars) ==
    {k \in descendants(doc, i) : doc.string[k] # None /\ Len(doc.string[k][1]) > nchars}

\* element.string = element.string[:nchars] + '...' for the elements of tops, in place:
\* the new string replaces the whole content of the element
set_strings(doc, tops, nchars) ==
    Compact([k \in 1..Len(doc.nodes) |->
                IF k \in tops
                THEN [doc.nodes[k] EXCEPT !.text = Some(SubSeq(doc.string[k][1], 1, nchars) \o <<".", ".", ".">>)]
                ELSE doc.nodes[k]],
            UNION {descendants(doc, k) : k \in tops})

\* shortens all strings below the tag, in place; find_all() reaches an element before the
\* elements inside it
shorten_text(doc, i, nchars) ==
    IF long_strings(doc, i, nchars) = {} THEN doc.nodes
    ELSE set_strings(doc, {k \in long_strings(doc, i, nchars) :
                             doc.nodes[k].parent \notin long_strings(doc, i, nchars)}, nchars)

\* removes all the given tags from below the element, in place
remove_tags(tree, i, tags) ==
    Compact(tree, UNION {k..SubtreeEnd(tree, k) :
                           k \in {j \in (i + 1)..SubtreeEnd(tree, i) : tree[j].name \in tags}})

\* strips the given attributes from all elements below the tag, in place
strip_attributes(tree, i, attributes) ==
    [k \in 1..Len(tree) |->
        IF k > i /\ k <= SubtreeEnd(tree, i)
        THEN [tree[k] EXCEPT !.attrs = [a \in (DOMAIN @) \ attributes |-> @[a]]]
        ELSE tree[k]]

----------------------------------------------------------------------------
(* app/navigation/Document.py *)

\* recursively copies a tag and its content, dropping any attribute called name
strip_name(c) == [k \in 1..Len(c) |-> [c[k] EXCEPT !.attrs = WithoutKey(@, "name")]]

copy_tag(tree, i) == strip_name(copy(tree, i))

\* the copies of the element children of the body of a secondary document
body_copies(secondary_soup, body) ==
    IF body = 0 THEN <<>>
    ELSE LET kids == children(secondary_soup, body)
         IN [k \in 1..Len(kids) |-> copy_tag(secondary_soup, kids[k])]

RECURSIVE combine_rest(_, _, _)
combine_rest(main_soup, body, html_list) ==
    IF html_list = <<>> THEN main_soup
    ELSE combine_rest(append_all(main_soup, body, body_copies(Head(html_list), BodyOf(Head(html_list)))),
                      body, Tail(html_list))

\* adds the body contents of the secondary documents to the main document
combine_documents(html_list) == combine_rest(Head(html_list), BodyOf(Head(html_list)), Tail(html_list))

\* main_soup.body.append(...) of line 43 on a main document without body: None has no
\* append, so the first secondary body child ends the merge in an AttributeError
combine_raises(html_list) ==
    /\ BodyOf(Head(html_list)) = 0
    /\ \E k \in 2..Len(html_list) :
          BodyOf(html_list[k]) # 0 /\ children(html_list[k], BodyOf(html_list[k])) # <<>>

\* what _combine_documents hands back or raises
combined(html_list) ==
    IF combine_raises(html_list) THEN [exc |-> "AttributeError", tree |-> <<>>]
    ELSE [exc |-> "none", tree |-> combine_documents(html_list)]

\* Document(html_list), Document.update(html_list)
Document(html_list) == Soup(combine_documents(html_list))

\* get_text, lines 68-71: a text longer than max_length is cut and marked with '...'
short_text(text, max_length) ==
    IF Len(text) > max_length THEN SubSeq(text, 1, max_length) \o <<".", ".", ".">> ELSE text

tag_contains_text(string, text) ==
    string # None /\ string[1] # <<>> /\ strip(string[1]) = text

\* body.find_all(...): the matching tags below the body, in document order
find_elements_by_text(doc, text) ==
    SortedSeq({k \in descendants(doc, doc.body) : tag_contains_text(doc.string[k], text)})

\* the first of ancestors1 that occurs (==) in ancestors2; 0 is None
first_common(doc, ancestors1, ancestors2) ==
    LET hits == {k \in 1..Len(ancestors1) :
                    \E m \in 1..Len(ancestors2) : TagEq(doc, ancestors1[k], ancestors2[m])}
    IN IF hits = {} THEN 0 ELSE ancestors1[MinOf(hits)]

find_common_ancestor(doc, element1, element2) ==
    first_common(doc, parents(doc.nodes, element1), parents(doc.nodes, element2))

\* the loop of find_ancestors: climbs while current_element != ancestor_limit;
\* leaving the tree (current_element is None) ends in an AttributeError
RECURSIVE climb(_, _, _, _)
climb(doc, current_element, ancestor_limit, ancestors) ==
    IF current_element = 0 THEN [exc |-> "AttributeError", path |-> <<>>]
    ELSE IF TagEq(doc, current_element, ancestor_limit)
         THEN [exc |-> "none", path |-> ancestors]
    ELSE climb(doc, doc.nodes[current_element].parent, ancestor_limit, <<current_element>> \o ancestors)

\* the list of find_ancestors as it is before ancestors.reverse(): the element first
ancestors_upward(doc, element, ancestor_limit) ==
    LET found == climb(doc, doc.nodes[element].parent, ancestor_limit, <<element>>)
    IN [exc |-> found.exc, path |-> [k \in 1..Len(found.path) |-> found.path[Len(found.path) + 1 - k]]]

\* the element and its ancestors below ancestor_limit, outermost first
find_ancestors(doc, element, ancestor_limit) ==
    climb(doc, doc.nodes[element].parent, ancestor_limit, <<element>>)

\* the loop with each child compared with the last kept child only
RECURSIVE distinct_from_last_loop(_, _, _)
distinct_from_last_loop(tree, kids, distinct_children) ==
    IF kids = <<>> THEN distinct_children
    ELSE IF distinct_children # <<>>
            /\ is_identical_to(tree[Head(kids)], tree[distinct_children[Len(distinct_children)]])
         THEN distinct_from_last_loop(tree, Tail(kids), distinct_children)
         ELSE distinct_from_last_loop(tree, Tail(kids), Append(distinct_children, Head(kids)))

RECURSIVE distinct_loop(_, _, _)
distinct_loop(tree, kids, distinct_children) ==
    IF kids = <<>> THEN distinct_children
    ELSE IF \E k \in 1..Len(distinct_children) : is_identical_to(tree[Head(kids)], tree[distinct_children[k]])
         THEN distinct_loop(tree, Tail(kids), distinct_children)
         ELSE distinct_loop(tree, Tail(kids), Append(distinct_children, Head(kids)))

\* the children of the element that are not similar to an earlier kept child
find_distinct_children(tree, i) == distinct_loop(tree, children(tree, i), <<>>)

----------------------------------------------------------------------------
(* The answer of the sample oracle: parsed JSON *)

JStr(s) == [k |-> "str", s |-> s, n |-> 0, items |-> <<>>, keys |-> <<>>]

JNum(n) == [k |-> "num", s |-> <<>>, n |-> n, items |-> <<>>, keys |-> <<>>]

JBool(b) == [k |-> "bool", s |-> <<>>, n |-> IF b THEN 1 ELSE 0, items |-> <<>>, keys |-> <<>>]

JNull == [k |-> "null", s |-> <<>>, n |-> 0, items |-> <<>>, keys |-> <<>>]

JList(items) == [k |-> "list", s |-> <<>>, n |-> 0, items |-> items, keys |-> <<>>]

JDict(keys, items) == [k |-> "dict", s |-> <<>>, n |-> 0, items |-> items, keys |-> keys]

\* len(value); only called on sized values
JLen(v) == IF v.k = "str" THEN Len(v.s) ELSE Len(v.items)

\* iterating a value: the items of a list, the keys of a dict, the characters of a str
JIter(v) ==
    IF v.k = "list" THEN v.items
    ELSE IF v.k = "dict" THEN [i \in 1..Len(v.keys) |-> JStr(v.keys[i])]
    ELSE [i \in 1..Len(v.s) |-> JStr(<<v.s[i]>>)]

\* value[0] and value[-1] of a list or a str
JFirst(v) == IF v.k = "list" THEN v.items[1] ELSE JStr(<<v.s[1]>>)

JLast(v) == IF v.k = "list" THEN v.items[Len(v.items)] ELSE JStr(<<v.s[Len(v.s)]>>)

\* str(True), str(False)
str_bool(n) == IF n = 1 THEN <<"T", "r", "u", "e">> ELSE <<"F", "a", "l", "s", "e">>

----------------------------------------------------------------------------
(* app/ai/agents/DataLocator.py *)

MAX_PAIRS == 1000

MAX_STRING_LENGTH == 100

TABLE_ROWS == 15

\* a float k / n is kept as <<k, n>>; the default 0.0 is <<0, 1>>
FloatEq(p, q) == p[1] * q[2] = q[1] * p[2]

\* p >= 0.35
AtOrAboveThreshold(p) == 100 * p[1] >= 35 * p[2]

\* p > 0.35
AboveThreshold(p) == 100 * p[1] > 35 * p[2]

FloatLess(p, q) == p[1] * q[2] < q[1] * p[2]

DocumentData(c, e1, e2, p) == [container |-> c, element1 |-> e1, element2 |-> e2, proportion |-> p]

\* DocumentData(): no container
EmptyData == DocumentData(0, 0, 0, <<0, 1>>)

\* isinstance(item, (str, int, float)) also holds for a bool, a subclass of int
RECURSIVE extract_values(_)
extract_values(item) ==
    IF item.k = "str" THEN <<item.s>>
    ELSE IF item.k = "num" THEN <<str_int(item.n)>>
    ELSE IF item.k = "bool" THEN <<str_bool(item.n)>>
    ELSE IF item.k \in {"dict", "list"}
         THEN FlattenSeq([i \in 1..Len(item.items) |-> extract_values(item.items[i])])
    ELSE <<>>

extract_sample_strings(sample_data) ==
    LET items == JIter(sample_data)
    IN FlattenSeq([i \in 1..Len(items) |-> extract_values(items[i])])

\* lines 125-127 of _generate_data_sample: the answer's 'data', None, or len() raising
generate_data_sample(answer) ==
    IF ~answer.present \/ ~answer.has_data THEN [exc |-> "none", sample_data |-> None]
    ELSE IF answer.data.k \in {"num", "bool", "null"} THEN [exc |-> "TypeError", sample_data |-> None]
    ELSE IF JLen(answer.data) > 1 THEN [exc |-> "none", sample_data |-> Some(answer.data)]
    ELSE [exc |-> "none", sample_data |-> None]

\* line 139: a string that ends with an ellipsis loses its trailing dots
untruncated(strings) ==
    [i \in 1..Len(strings) |-> IF endswith_ellipsis(strings[i]) THEN rstrip_dots(strings[i]) ELSE strings[i]]

\* lines 141-146: the elements found for each string, list after list
elements_of(doc, sample_strings) ==
    FlattenSeq([i \in 1..Len(sample_strings) |-> find_elements_by_text(doc, sample_strings[i])])

\* the elements that contain the strings of one record, and the grown pool
find_data_elements(doc, pool, sample_data) ==
    [pool |-> pool \o untruncated(extract_values(sample_data)),
     data_elements |-> elements_of(doc, untruncated(extract_values(sample_data)))]

\* itertools.product(list_a, list_b) as a list
pairs(list_a, list_b) ==
    [k \in 1..(Len(list_a) * Len(list_b)) |->
        <<list_a[((k - 1) \div Len(list_b)) + 1], list_b[((k - 1) % Len(list_b)) + 1]>>]

\* random.sample(population, k): any k entries at distinct positions, in any order
random_sample(population, k) ==
    {[i \in 1..k |-> population[f[i]]] :
        f \in {g \in [1..k -> 1..Len(population)] : \A i, j \in 1..k : i # j => g[i] # g[j]}}

\* lines 162-163 with the threshold and the sample size at 1: one pair is drawn
sample_one_pair(product) ==
    IF Len(product) > 1 THEN random_sample(product, 1) ELSE {product}

\* the lists element_pairs can be after lines 161-163
element_pairs_choices(product) ==
    IF Len(product) > MAX_PAIRS THEN random_sample(product, MAX_PAIRS) ELSE {product}

\* lines 164-167: one DocumentData per pair
candidates_of(doc, element_pairs) ==
    [k \in 1..Len(element_pairs) |->
        DocumentData(find_common_ancestor(doc, element_pairs[k][1], element_pairs[k][2]),
                     element_pairs[k][1], element_pairs[k][2], <<0, 1>>)]

\* {d.container: d for d in data}.values(): a key stays where it was first inserted,
\* its value is the last d whose container is == to it
RECURSIVE unique_loop(_, _, _)
unique_loop(doc, data, acc) ==
    IF data = <<>> THEN acc
    ELSE IF \E k \in 1..Len(acc) : TagEq(doc, acc[k].container, Head(data).container)
         THEN unique_loop(doc, Tail(data),
                          [k \in 1..Len(acc) |->
                              IF TagEq(doc, acc[k].container, Head(data).container) THEN Head(data) ELSE acc[k]])
         ELSE unique_loop(doc, Tail(data), Append(acc, Head(data)))

filter_unique_containers(doc, data) == unique_loop(doc, data, <<>>)

\* strings_found and len(self._sample_strings) for a lowered container text
proportion_in(container_text, pool) ==
    <<Cardinality({i \in 1..Len(pool) : contains(container_text, lower(pool[i]))}), Len(pool)>>

\* the proportion of the pooled sample strings found in the container's text
proportion_of(doc, container, pool) ==
    proportion_in(lower(TagText(doc.nodes, container, doc.end[container])), pool)

\* every item scored (item.proportion is assigned in place)
score_data(doc, data, pool) ==
    [i \in 1..Len(data) |-> [data[i] EXCEPT !.proportion = proportion_of(doc, data[i].container, pool)]]

above(item) == AboveThreshold(item.proportion)

filter_data(doc, data, pool) == SelectSeq(score_data(doc, data, pool), above)

\* dataclass __eq__ of two DocumentData: field-wise ==
DataEq(doc, a, b) ==
    /\ TagEq(doc, a.container, b.container)
    /\ TagEq(doc, a.element1, b.element1)
    /\ TagEq(doc, a.element2, b.element2)
    /\ FloatEq(a.proportion, b.proportion)

\* data_a is dropped when it has the proportion of a data_b whose container is below or
\* above its own
is_wrapper_either(doc, data, a) ==
    \E b \in 1..Len(data) :
        /\ FloatEq(data[a].proportion, data[b].proportion)
        /\ ~DataEq(doc, data[a], data[b])
        /\ \/ is_descendant_of(doc, data[b].container, data[a].container)
           \/ is_descendant_of(doc, data[a].container, data[b].container)

\* data_a is dropped when the container of an equal-proportion data_b is_descendant_of its own
is_wrapper(doc, data, a) ==
    \E b \in 1..Len(data) :
        /\ FloatEq(data[a].proportion, data[b].proportion)
        /\ ~DataEq(doc, data[a], data[b])
        /\ is_descendant_of(doc, data[b].container, data[a].container)

keep_at(data, order) == [k \in 1..Len(order) |-> data[order[k]]]

filter_wrappers(doc, data) ==
    keep_at(data, SortedSeq({a \in 1..Len(data) : ~is_wrapper(doc, data, a)}))

\* max(data, key=proportion): the first item of maximal proportion
max_proportion(data) ==
    data[MinOf({a \in 1..Len(data) : \A b \in 1..Len(data) : ~FloatLess(data[a].proportion, data[b].proportion)})]

\* what _find_data_container returns, with the lists it went through
Located(data, candidates, unique, scored, kept, stage) ==
    [data |-> data, candidates |-> candidates, unique |-> unique, scored |-> scored, kept |-> kept,
     stage |-> stage]

NoTrace == Located(EmptyData, <<>>, <<>>, <<>>, <<>>, "none")

\* lines 174-177
after_filter_wrappers(candidates, unique, scored, kept) ==
    IF kept = <<>> THEN Located(EmptyData, candidates, unique, scored, kept, "empty")
    ELSE Located(max_proportion(kept), candidates, unique, scored, kept, "max")

\* lines 172-174
after_filter_data(doc, candidates, unique, scored) ==
    IF Len(scored) = 1 THEN Located(scored[1], candidates, unique, scored, <<>>, "scored")
    ELSE after_filter_wrappers(candidates, unique, scored, filter_wrappers(doc, scored))

\* lines 169-171
after_filter_unique(doc, pool, candidates, unique) ==
    IF Len(unique) = 1 THEN Located(unique[1], candidates, unique, <<>>, <<>>, "unique")
    ELSE after_filter_data(doc, candidates, unique, filter_data(doc, unique, pool))

\* line 168
after_candidates(doc, pool, candidates) ==
    after_filter_unique(doc, pool, candidates, filter_unique_containers(doc, candidates))

\* _find_data_container from line 164 on, for the element_pairs chosen at lines 161-163
find_data_container(doc, element_pairs, pool) ==
    after_candidates(doc, pool, candidates_of(doc, element_pairs))

\* the answer, the pool and the two anchor lists of one locate step
Anchors(answer, exc, ok, pool, data_elements1, data_elements2) ==
    [answer |-> answer, exc |-> exc, ok |-> ok, pool |-> pool, data_elements1 |-> data_elements1,
     data_elements2 |-> data_elements2]

\* the test of line 109 with `and` in place of `or`: one empty list is let through
either_elements(answer, first, second) ==
    Anchors(answer, "none", first.data_elements # <<>> \/ second.data_elements # <<>>, second.pool,
            first.data_elements, second.data_elements)

\* lines 109-110
both_elements(answer, first, second) ==
    Anchors(answer, "none", first.data_elements # <<>> /\ second.data_elements # <<>>, second.pool,
            first.data_elements, second.data_elements)

\* line 108
second_elements(doc, answer, first, last_record) ==
    both_elements(answer, first, find_data_elements(doc, first.pool, last_record))

\* lines 106-108; sample_data[0] of a dict raises KeyError
anchors_of(doc, answer, sample_data) ==
    IF sample_data.k = "dict"
    THEN Anchors(answer, "KeyError", FALSE, extract_sample_strings(sample_data), <<>>, <<>>)
    ELSE second_elements(doc, answer,
                         find_data_elements(doc, extract_sample_strings(sample_data), JFirst(sample_data)),
                         JLast(sample_data))

\* lines 104-105
after_sample(doc, pool, answer, generated) ==
    IF generated.exc # "none" \/ generated.sample_data = None
    THEN Anchors(answer, generated.exc, FALSE, pool, <<>>, <<>>)
    ELSE anchors_of(doc, answer, generated.sample_data[1])

\* _find_data_structure, lines 103-110
find_anchors(doc, pool, answer) == after_sample(doc, pool, answer, generate_data_sample(answer))

\* self._pairs(data_elements1, data_elements2) of a locate step that gets that far
pairs_of(anchors) ==
    IF anchors.ok THEN pairs(anchors.data_elements1, anchors.data_elements2) ELSE <<>>

\* one run of _find_data_structure: data is None or Some(DocumentData)
Step(exc, data, doc, anchors, element_pairs, trace) ==
    [exc |-> exc, data |-> data, pool |-> anchors.pool, doc |-> doc, anchors |-> anchors,
     element_pairs |-> element_pairs, trace |-> trace]

located_step(doc, anchors, element_pairs, trace) ==
    Step("none", Some(trace.data), doc, anchors, element_pairs, trace)

\* _find_data_structure from line 109 on
find_data_structure(doc, anchors, element_pairs) ==
    IF ~anchors.ok THEN Step(anchors.exc, None, doc, anchors, <<>>, NoTrace)
    ELSE located_step(doc, anchors, element_pairs, find_data_container(doc, element_pairs, anchors.pool))

first_if_identical(tree, ancestors1, ancestors2) ==
    IF ancestors1.exc # "none" THEN [exc |-> ancestors1.exc, item |-> 0]
    ELSE IF ancestors2.exc # "none" THEN [exc |-> ancestors2.exc, item |-> 0]
    ELSE IF is_identical_to(tree[ancestors1.path[1]], tree[ancestors2.path[1]])
         THEN [exc |-> "none", item |-> ancestors1.path[1]]
    ELSE [exc |-> "none", item |-> 0]

\* _find_first_item: the outermost path element of element1 if that of element2 is identical
find_first_item(doc, data) ==
    first_if_identical(doc.nodes, find_ancestors(doc, data.element1, data.container),
                       find_ancestors(doc, data.element2, data.container))

\* lines 224-226
pruned_with(pruned_container, container, distinct_children) ==
    append_all(pruned_container, 1, [k \in 1..Len(distinct_children) |-> copy(container, distinct_children[k])])

\* lines 222-226, container being the copy after remove_children_style()
prune(pruned_container, container) ==
    pruned_with(pruned_container, container, find_distinct_children(container, 1))

\* _remove_similar_children; new_tag(name, **attributes) raises when an attribute is called name
remove_similar_children(tree, i) ==
    IF "name" \in DOMAIN tree[i].attrs THEN [exc |-> "TypeError", tree |-> <<>>]
    ELSE [exc |-> "none",
          tree |-> prune(<<Node(0, tree[i].name, tree[i].attrs, None)>>, remove_children_style(copy(tree, i)))]

\* a tag of the document, or a detached tree (ref = 0)
TagRef(doc, i) == [ref |-> i, tree |-> copy(doc.nodes, i)]

Detached(tree) == [ref |-> 0, tree |-> tree]

NoTag == [ref |-> 0, tree |-> <<>>]

\* what find hands back, and what '<file_name>.html' holds then
Returned(sample, shape, file, saved) ==
    [exc |-> "none", sample |-> sample, shape |-> shape, file |-> file, saved |-> saved]

Raised(exc, file, saved) ==
    [exc |-> exc, sample |-> NoTag, shape |-> "none", file |-> file, saved |-> saved]

\* lines 76-77
distinct_items(saved, distinct_children) ==
    IF distinct_children.exc # "none" THEN Raised(distinct_children.exc, saved, TRUE)
    ELSE Returned(Detached(distinct_children.tree), "DISTINCT_ITEMS", saved, TRUE)

\* lines 71-77
items(doc, data, saved, first_item) ==
    IF first_item.exc # "none" THEN Raised(first_item.exc, saved, TRUE)
    ELSE IF first_item.item # 0
    THEN IF is_text_tag(doc.nodes[first_item.item])
         THEN Returned(TagRef(doc, data.container), "TEXT", saved, TRUE)
         ELSE Returned(TagRef(doc, first_item.item), "FIRST_ITEM", saved, TRUE)
    ELSE distinct_items(saved, remove_similar_children(doc.nodes, data.container))

\* lines 65-70
table_or_items(doc, data, table) ==
    IF table # 0
    THEN Returned(Detached(get_first_rows(doc.nodes, table, TABLE_ROWS)[1]), "TABLE", copy(doc.nodes, table), TRUE)
    ELSE items(doc, data, copy(doc.nodes, data.container), find_first_item(doc, data))

\* find, lines 59-77, with the test of line 62 as attempts > 0
classify_retry(doc, data, attempts, file) ==
    IF data = None \/ data[1].container = 0
    THEN Returned(TagRef(doc, doc.body), "DATA_NOT_FOUND", copy(doc.nodes, doc.body), TRUE)
    ELSE IF attempts > 0
    THEN Returned(TagRef(doc, data[1].container), "CONTAINER", file, FALSE)
    ELSE table_or_items(doc, data[1], find_parent_table(doc.nodes, data[1].container))

\* find, lines 59-77: data is what _find_data returned; file is '<file_name>.html'
classify(doc, data, attempts, file) ==
    IF data = None \/ data[1].container = 0
    THEN Returned(TagRef(doc, doc.body), "DATA_NOT_FOUND", copy(doc.nodes, doc.body), TRUE)
    ELSE IF attempts > 1
    THEN Returned(TagRef(doc, data[1].container), "CONTAINER", file, FALSE)
    ELSE table_or_items(doc, data[1], find_parent_table(doc.nodes, data[1].container))

\* find after _find_data: an exception of the locate step passes through
find(doc, step, attempts, file) ==
    IF step.exc # "none" THEN Raised(step.exc, file, FALSE)
    ELSE classify(doc, step.data, attempts, file)

\* the tag itself in place of a copy of it
tag_alias(tree, i) == [ref |-> i, tree |-> copy(tree, i)]

\* self.copy() as the receiver of the calls that follow: a tree of its own (ref = 0)
tag_copy(tree, i) == Detached(copy(tree, i))

\* the document after lines 70-73 of get_first_rows have decomposed the rows behind the
\* n-th of the table they were handed
rows_decomposed(tree, table, n) ==
    IF table.ref = 0 THEN tree
    ELSE Compact(tree, decompose_all(tree,
                     SubSeq(SortedSeq({k \in (table.ref + 1)..SubtreeEnd(tree, table.ref) : tree[k].name = "tr"}),
                            n + 1,
                            Cardinality({k \in (table.ref + 1)..SubtreeEnd(tree, table.ref) : tree[k].name = "tr"})),
                     {}))

\* the document after remove_children_style() on the container it was handed
children_unstyled(tree, container) ==
    IF container.ref = 0 THEN tree
    ELSE [k \in 1..Len(tree) |->
            IF tree[k].parent = container.ref THEN [tree[k] EXCEPT !.attrs = WithoutKey(@, "style")]
            ELSE tree[k]]

\* the tree of the document after lines 59-77 of find: get_first_rows works on
\* self.copy(), _remove_similar_children on container.copy() (when new_tag has not raised)
document_after_find(doc, data, attempts) ==
    IF data = None \/ data[1].container = 0 \/ attempts > 1 THEN doc.nodes
    ELSE IF find_parent_table(doc.nodes, data[1].container) # 0
    THEN rows_decomposed(doc.nodes, tag_copy(doc.nodes, find_parent_table(doc.nodes, data[1].container)),
                         TABLE_ROWS)
    ELSE IF find_first_item(doc, data[1]).exc # "none" \/ find_first_item(doc, data[1]).item # 0
            \/ "name" \in DOMAIN doc.nodes[data[1].container].attrs
    THEN doc.nodes
    ELSE children_unstyled(doc.nodes, tag_copy(doc.nodes, data[1].container))

----------------------------------------------------------------------------
(* app/ai/agents/WebScraper.py: set_source works on the tag it is handed *)

SAMPLE_STRING_LENGTH == 100

TAGS_TO_REMOVE == {"link", "script", "style", "meta"}

ATTRIBUTES_TO_STRIP ==
    {"lang", "dir", "style", "width", "height", "rel", "target", "tabindex", "frameborder",
     "marginheight", "marginwidth", "decoding", "sizes", "srcset", "referrerpolicy", "playsinline",
     "is-empty", "data-file-height", "data-file-width", "viewBox"}

\* clean_html, lines 93-97, on tag i of the document: the tree after the calls that
\* change the tag in place (the trees here hold no comment, svg or src)
clean_html(doc, i) ==
    strip_attributes(remove_tags(shorten_text(doc, i, SAMPLE_STRING_LENGTH), i, TAGS_TO_REMOVE),
                     i, ATTRIBUTES_TO_STRIP)

\* the document after set_source(sample, shape): a sample that is a tag of the document
\* is cleaned where it stands, a detached sample leaves the document alone
after_cleaning(doc, cleaned) == IF cleaned = doc.nodes THEN doc ELSE Soup(cleaned)

set_source(doc, out) ==
    IF out.exc # "none" \/ out.sample.ref = 0 THEN doc
    ELSE after_cleaning(doc, clean_html(doc, out.sample.ref))

----------------------------------------------------------------------------
(* The inputs: pages the browser loads, embedded documents, oracle answers *)

MaxBlocks == 2

MaxRows == 16

sa == <<"a">>

sb == <<"b">>

sc == <<"c">>

Leaf(name, text) == El(name, NoAttrs, Some(text), <<>>)

List == El("ul", NoAttrs, None, <<Leaf("li", sa), Leaf("li", sb)>>)

\* the blocks a page body is made of
Blocks ==
    << El("div", NoAttrs, None, <<List, Leaf("p", sa)>>),
       List,
       El("div", NoAttrs, None, <<El("p", Attr("id", "i"), Some(sa), <<>>), Leaf("p", sb)>>),
       El("div", Attr("class", "c"), None,
          <<El("p", Attr("style", "s"), Some(sa), <<>>), Leaf("p", sc), El("span", Attr("id", "i"), Some(sb), <<>>)>>),
       El("div", Attr("name", "n"), None, <<Leaf("p", sa), Leaf("span", sb)>>) >>

\* the choices of up to MaxBlocks blocks, a block may repeat; they stand in the order of Blocks
BlockChoices ==
    {ix \in UNION {[1..n -> 1..Len(Blocks)] : n \in 1..MaxBlocks} :
        \A k \in 1..(Len(ix) - 1) : ix[k] <= ix[k + 1]}

\* a parsed page: the BeautifulSoup object, html, body and the body's children
Page(kids) ==
    El("[document]", NoAttrs, None, <<El("html", NoAttrs, None, <<El("body", NoAttrs, None, kids)>>)>>)

BlockPages == {Page([k \in 1..Len(ix) |-> Blocks[ix[k]]]) : ix \in BlockChoices}

\* a table of n rows: the first holds a, the last b, the others c
RowText(k, n) == IF k = 1 THEN sa ELSE IF k = n THEN sb ELSE sc

Row(text) == El("tr", NoAttrs, None, <<Leaf("td", text)>>)

TablePage(n) == Page(<<El("table", NoAttrs, None, [k \in 1..n |-> Row(RowText(k, n))])>>)

TablePages == {TablePage(n) : n \in 1..MaxRows}

Pages == BlockPages \cup TablePages

\* a frame document without a body, and one with a list
NoBodyDoc == El("[document]", NoAttrs, None, <<El("html", NoAttrs, None, <<>>)>>)

FrameDoc == Page(<<List>>)

\* get_embedded_html(): nothing, or the page's documents (the main one first)
EmbeddedChoices(main) == {<<>>, <<main, NoBodyDoc, FrameDoc>>}

\* the keys of a record are distinct
KeyNames == <<"k1", "k2">>

Record(leaves) == JDict(SubSeq(KeyNames, 1, Len(leaves)), [i \in 1..Len(leaves) |-> JStr(leaves[i])])

Data(records) == [present |-> TRUE, has_data |-> TRUE, data |-> JList(records)]

NoAnswer == [present |-> FALSE, has_data |-> FALSE, data |-> JNull]

Answers ==
    { NoAnswer,
      Data(<<Record(<<sa>>)>>),
      [present |-> TRUE, has_data |-> TRUE, data |-> JNum(5)],
      [present |-> TRUE, has_data |-> TRUE, data |-> JDict(<<"x", "y">>, <<Record(<<sa>>), Record(<<sb>>)>>)],
      Data(<<Record(<<sa>>), Record(<<sb>>)>>),
      Data(<<Record(<<sa>>), Record(<<sa>>)>>),
      Data(<<Record(<<>>), Record(<<sb>>)>>),
      Data(<<Record(<<sa, sa>>), Record(<<sb>>)>>),
      Data(<<Record(<<sa>>), Record(<<sc>>), Record(<<sb>>)>>),
      Data(<<Record(<<sa, <<"d">>>>), Record(<<<<"e">>, <<"f">>>>), Record(<<<<"g">>, <<"h">>>>),
             Record(<<sb, <<"i">>>>)>>) }

\* the answers tried for the request that follows a merge of the embedded documents
RetryAnswers == {NoAnswer, Data(<<Record(<<sa>>), Record(<<sb>>)>>)}

----------------------------------------------------------------------------
(* The program: AppManager drives the browser and the DataLocator *)

VARIABLES pc, page, doc, scraping_attempts, sample_strings, file, source, exc, last

\* a function of the program applied to an input, for the functions checked on their own
VARIABLES input, result

\* a Search object (_total_results, the 'start' request parameter), whether the API key and
\* ID are set in the environment, and what the caller of next_urls saw
VARIABLES total_results, start, credentials, returned, fetched

locator_vars == <<pc, page, doc, scraping_attempts, sample_strings, file, source, exc, last>>

unit_vars == <<input, result>>

search_vars == <<total_results, start, credentials, returned, fetched>>

\* main.py and the rest of AppManager: the urls browsed so far, _validator_failed, whether
\* extract_data returned data, the data_valid and skip_url of main, the attempt numbers
\* find was called with on the url and the validations that failed on it
VARIABLES url_index, validator_failed, scraped, data_valid, skip, find_attempts, failures

loop_vars == <<url_index, validator_failed, scraped, data_valid, skip, find_attempts, failures>>

vars == <<locator_vars, unit_vars, search_vars, loop_vars>>

MAX_USER_VALIDATIONS_PER_WEBSITE == 3

NoCall == [attempts |-> 0, steps |-> <<>>, out |-> Raised("none", <<>>, FALSE)]

NoSource == [sample |-> NoTag, shape |-> "none"]

NoDocument == [nodes |-> <<>>, body |-> 0, end |-> <<>>, cls |-> <<>>, string |-> <<>>]

\* no function applied yet
NoInput == [fn |-> "none"]

NotApplied == [applied |-> FALSE]

UnitIdle == input = NoInput /\ result = NotApplied

\* what a call of next_urls gave: how many urls it returned, how many requests it sent,
\* the exception that ended it
Fetched(urls, requests, e) == [urls |-> urls, requests |-> requests, exc |-> e]

\* Search.__init__; nothing fetched yet
NewSearch ==
    /\ total_results = 0
    /\ start = 1
    /\ returned = 0
    /\ fetched = Fetched(0, 0, "none")

SearchInit == NewSearch /\ credentials = TRUE

\* AppManager.__init__: no browser, no attempt made
LocatorInit ==
    /\ pc = "browse"
    /\ page = <<>>
    /\ doc = NoDocument
    /\ scraping_attempts = 0
    /\ sample_strings = <<>>
    /\ file = <<>>
    /\ source = NoSource
    /\ exc = "none"
    /\ last = NoCall

\* main.py before the first url; AppManager.__init__
LoopInit ==
    /\ url_index = 0
    /\ validator_failed = FALSE
    /\ scraped = FALSE
    /\ data_valid = FALSE
    /\ skip = FALSE
    /\ find_attempts = <<>>
    /\ failures = 0

Init == LocatorInit /\ UnitIdle /\ SearchInit /\ LoopInit

\* AppManager.browse: _reset_scraper, then go_to_url builds Document([page_source])
Browse ==
    /\ pc = "browse"
    /\ \E p \in Pages :
        /\ page' = p
        /\ doc' = Document(<<p>>)
    /\ scraping_attempts' = 0
    /\ sample_strings' = <<>>
    /\ source' = NoSource
    /\ pc' = "extract"
    /\ UNCHANGED <<file, exc, last, unit_vars, search_vars, loop_vars>>

\* _locate_data: what the call of find leaves behind, then set_source
LocateData(document, steps, out) ==
    /\ doc' = set_source(document, out)
    /\ sample_strings' = steps[Len(steps)].pool
    /\ file' = out.file
    /\ exc' = out.exc
    /\ source' = IF out.exc = "none" THEN [sample |-> out.sample, shape |-> out.shape] ELSE source
    /\ last' = [attempts |-> scraping_attempts, steps |-> steps, out |-> out]
    /\ pc' = IF out.exc = "none" THEN "validate" ELSE "crashed"
    /\ UNCHANGED <<page, scraping_attempts, unit_vars, search_vars, loop_vars>>

\* find, lines 59-77, on the document and the locate steps _find_data went through
Find(document, steps) ==
    \E out \in {find(document, steps[Len(steps)], scraping_attempts, file)} :
        LocateData(document, steps, out)

\* _find_data, line 98: the locate step on the merged document
LocateSecond(first, merged, anchors) ==
    \E element_pairs \in element_pairs_choices(pairs_of(anchors)) :
        \E second \in {find_data_structure(merged, anchors, element_pairs)} :
            Find(merged, <<first, second>>)

\* _find_data, lines 97-98: the document is updated, the oracle is asked again
LocateAgain(first, merged) ==
    \E answer \in RetryAnswers :
        \E anchors \in {find_anchors(merged, first.pool, answer)} :
            LocateSecond(first, merged, anchors)

\* _find_data, lines 93-99
FindData(first) ==
    IF first.exc # "none" \/ first.data # None THEN Find(doc, <<first>>)
    ELSE \E embedded_docs \in EmbeddedChoices(page) :
            IF embedded_docs = <<>> THEN Find(doc, <<first>>)
            ELSE \E merged \in {Document(embedded_docs)} : LocateAgain(first, merged)

\* _find_data, line 92: the first locate step
LocateFirst(anchors) ==
    \E element_pairs \in element_pairs_choices(pairs_of(anchors)) :
        \E first \in {find_data_structure(doc, anchors, element_pairs)} :
            FindData(first)

\* AppManager.extract_data, as far as the locator goes
ExtractData ==
    /\ pc = "extract"
    /\ \E answer \in Answers :
         \E anchors \in {find_anchors(doc, sample_strings, answer)} :
            LocateFirst(anchors)

\* AppManager.user_validates and the loop of main.py: extract_data may ask to skip the
\* url; else the attempt is counted and the loop goes on unless the user ends it or the
\* maximum was reached
UserValidates ==
    /\ pc = "validate"
    /\ \E skip_url, stop \in BOOLEAN :
         IF skip_url THEN pc' = "done" /\ UNCHANGED scraping_attempts
         ELSE /\ scraping_attempts' = scraping_attempts + 1
              /\ pc' = IF stop \/ scraping_attempts >= MAX_USER_VALIDATIONS_PER_WEBSITE
                       THEN "done" ELSE "extract"
    /\ last' = NoCall
    /\ UNCHANGED <<page, doc, sample_strings, file, source, exc, unit_vars, search_vars, loop_vars>>

Next == Browse \/ ExtractData \/ UserValidates

Spec == Init /\ [][Next]_vars

----------------------------------------------------------------------------
(* The functions of the program applied on their own: the initial state     *)
(* holds the input, the action of a function applies it and keeps the       *)
(* result.                                                                  *)

MaxItems == 2

\* the keys of the dicts of the inputs
UnitKeys == <<"k1", "k2", "k3", "k4">>

SeqsOf(S, n) == UNION {[1..m -> S] : m \in 0..n}

JsonLeaves == {JStr(sa), JNum(12), JBool(TRUE), JNull}

\* the lists and dicts of up to MaxItems items of S
JsonContainers(S) ==
    {JList(x) : x \in SeqsOf(S, MaxItems)}
        \cup {JDict(SubSeq(UnitKeys, 1, Len(x)), x) : x \in SeqsOf(S, MaxItems)}

\* leaves, containers of leaves, and containers of a leaf and a container
JsonValues ==
    JsonLeaves \cup JsonContainers(JsonLeaves)
        \cup UNION {{JList(<<x, y>>), JList(<<y, x>>),
                     JDict(<<"k1", "k2">>, <<x, y>>), JDict(<<"k1", "k2">>, <<y, x>>)} :
                        x \in JsonLeaves, y \in JsonContainers(JsonLeaves)}

ExtractValuesInputs == {[fn |-> "extract_values", item |-> v] : v \in JsonValues}

\* attrs dicts: id and class absent or one of two values, style absent or present
AttrDicts ==
    UNION {[keys -> {"x", "y"}] : keys \in SUBSET {"id", "class"}}
        \cup {[k \in (DOMAIN a) \cup {"style"} |-> IF k = "style" THEN "s" ELSE a[k]] :
                 a \in UNION {[keys -> {"x", "y"}] : keys \in SUBSET {"id", "class"}}}

\* tags without content
Tags == {Node(0, n, a, None) : n \in {"div", "p"}, a \in AttrDicts}

IsIdenticalToInputs == {[fn |-> "is_identical_to", self |-> a, other |-> b] : a, b \in Tags}

\* parsed documents, some with two equal subtrees
UnitDocuments == {Soup(p) : p \in BlockPages}

\* the positions of the tags of the longest of these documents
UnitTags ==
    1..(CHOOSE n \in {Len(d.nodes) : d \in UnitDocuments} : \A d \in UnitDocuments : Len(d.nodes) <= n)

\* a document and two of its tags
TagPairs(fn) ==
    {x \in [fn : {fn}, doc : UnitDocuments, self : UnitTags, other : UnitTags] :
        x.self <= Len(x.doc.nodes) /\ x.other <= Len(x.doc.nodes)}

MaxChildren == 5

\* p.test, p.test with an id, span, p.different
ChildKinds ==
    {El("p", Attr("class", "test"), Some(sa), <<>>),
     El("p", [k \in {"class", "id"} |-> IF k = "id" THEN "i" ELSE "test"], Some(sb), <<>>),
     El("span", NoAttrs, Some(sa), <<>>),
     El("p", Attr("class", "different"), Some(sc), <<>>)}

\* a div over up to MaxChildren children
FindDistinctChildrenInputs ==
    {[fn |-> "find_distinct_children", tree |-> El("div", NoAttrs, None, kids)] :
        kids \in SeqsOf(ChildKinds, MaxChildren)}

MaxDocs == 3

\* parsed html documents: an empty body, one paragraph, two blocks (one with a name
\* attribute), no body, a list
UnitPages == {Page(<<>>), Page(<<Leaf("p", sa)>>), Page(<<Blocks[3], Blocks[5]>>), NoBodyDoc, FrameDoc}

CombineDocumentsInputs ==
    {[fn |-> "combine_documents", html_list |-> l] : l \in SeqsOf(UnitPages, MaxDocs) \ {<<>>}}

\* a tag of one of the blocks
CopyTagInputs ==
    UNION {{[fn |-> "copy_tag", tree |-> Blocks[b], src_tag |-> i] : i \in 1..Len(Blocks[b])} :
              b \in 1..Len(Blocks)}

\* elements with text: padded with whitespace, in upper case, longer than the literal,
\* held by the only child, held next to a child element, whitespace only
TextBlocks ==
    {Leaf("p", <<" ", "a", " ">>), Leaf("p", <<"A">>), Leaf("p", <<"a", "b">>),
     El("div", NoAttrs, None, <<Leaf("p", sa)>>),
     El("div", NoAttrs, Some(sa), <<Leaf("span", sb)>>),
     Leaf("p", <<" ">>)}

Literals == {sa, sb, <<"A">>, <<"a", "b">>}

FindElementsByTextInputs ==
    {[fn |-> "find_elements_by_text", doc |-> Soup(Page(kids)), text |-> t] :
        kids \in SeqsOf(TextBlocks, MaxBlocks), t \in Literals}

MaxPool == 20

\* a page of one list
ListDocument == Soup(Page(<<List>>))

\* a pool of n strings: the first k are a, A, ab, b in turn, the others c
PoolOf(n, k) ==
    [i \in 1..n |-> IF i <= k THEN <<sa, <<"A">>, <<"a", "b">>, sb>>[((i - 1) % 4) + 1] ELSE sc]

\* one candidate per element from the body down, for a list of two items, and a pool
FilterDataInputs ==
    {[fn |-> "filter_data", doc |-> d,
      data |-> [c \in 1..4 |-> DocumentData(c + 2, 5, 6, <<0, 1>>)], pool |-> PoolOf(n, k)] :
        d \in {ListDocument}, n \in 1..MaxPool, k \in 0..MaxPool}

MaxText == 102

\* a page with one paragraph of n characters, and a record whose value is that paragraph
\* as get_text(MAX_STRING_LENGTH) shows it to the oracle
FindDataElementsInputs ==
    {[fn |-> "find_data_elements", doc |-> Soup(Page(<<Leaf("p", [i \in 1..n |-> "x"])>>)),
      sample_data |-> Record(<<short_text([i \in 1..n |-> "x"], MAX_STRING_LENGTH)>>)] :
        n \in 1..MaxText}

MaxCandidates == 3

\* a page of a block with a list and a paragraph, followed by a list
NestedListsDocument == Soup(Page(<<Blocks[1], List>>))

\* up to MaxCandidates scored candidates with different container nodes of one page, in
\* document order or against it, each found in all of the pool (the nodes of full) or in
\* half of it
FilterWrappersInputs ==
    {[fn |-> "filter_wrappers", doc |-> d,
      data |-> [k \in 1..Cardinality(S) |->
                  DocumentData(IF up THEN SortedSeq(S)[k] ELSE SortedSeq(S)[Cardinality(S) + 1 - k], 6, 7,
                               <<IF (IF up THEN SortedSeq(S)[k] ELSE SortedSeq(S)[Cardinality(S) + 1 - k]) \in full
                                 THEN 2 ELSE 1, 2>>)]] :
        d \in {NestedListsDocument},
        S \in {T \in SUBSET (3..9) : Cardinality(T) >= 1 /\ Cardinality(T) <= MaxCandidates},
        full \in SUBSET (3..9),
        up \in BOOLEAN}

\* the input families, one for each function
UnitInputs ==
    <<FilterWrappersInputs, FindDataElementsInputs, FilterDataInputs, ExtractValuesInputs, IsIdenticalToInputs,
      TagPairs("is_descendant_of"), TagPairs("find_ancestors"), FindDistinctChildrenInputs,
      CombineDocumentsInputs, CopyTagInputs, FindElementsByTextInputs>>

UnitInit ==
    /\ LocatorInit
    /\ SearchInit
    /\ LoopInit
    /\ \E family \in 1..Len(UnitInputs) : input \in UnitInputs[family]
    /\ result = NotApplied

\* the result of the function applied to the input
Apply(fn, value) ==
    /\ input.fn = fn
    /\ ~result.applied
    /\ result' = [applied |-> TRUE, value |-> value]
    /\ UNCHANGED <<input, locator_vars, search_vars, loop_vars>>

\* DataLocator._extract_values(item)
ExtractValues == Apply("extract_values", extract_values(input.item))

\* self.is_identical_to(other)
IsIdenticalTo == Apply("is_identical_to", is_identical_to(input.self, input.other))

\* self.is_descendant_of(other)
IsDescendantOf == Apply("is_descendant_of", is_descendant_of(input.doc, input.self, input.other))

\* document.find_ancestors(element, ancestor_limit)
FindAncestors == Apply("find_ancestors", find_ancestors(input.doc, input.self, input.other))

\* document.find_distinct_children(element), element being the root of the tree
FindDistinctChildren == Apply("find_distinct_children", find_distinct_children(input.tree, 1))

\* document._combine_documents(html_list)
CombineDocuments == Apply("combine_documents", combined(input.html_list))

\* document._copy_tag(src_tag, dest_soup)
CopyTag == Apply("copy_tag", copy_tag(input.tree, input.src_tag))

\* document.find_elements_by_text(text)
FindElementsByText == Apply("find_elements_by_text", find_elements_by_text(input.doc, input.text))

\* DataLocator._filter_data(data) with self._sample_strings = pool
FilterData == Apply("filter_data", filter_data(input.doc, input.data, input.pool))

\* DataLocator._find_data_elements(sample_data)
FindDataElements == Apply("find_data_elements", find_data_elements(input.doc, <<>>, input.sample_data))

\* DataLocator._filter_wrappers(data)
FilterWrappers == Apply("filter_wrappers", filter_wrappers(input.doc, input.data))

UnitNext ==
    \/ FilterWrappers
    \/ FindDataElements
    \/ FilterData
    \/ ExtractValues
    \/ IsIdenticalTo
    \/ IsDescendantOf
    \/ FindAncestors
    \/ FindDistinctChildren
    \/ CombineDocuments
    \/ CopyTag
    \/ FindElementsByText

Units == UnitInit /\ [][UnitNext]_vars

----------------------------------------------------------------------------
(* app/search/Search.py: one Search object and the calls of next_urls on it *)

MAX_RESULTS == 9

REQUEST_TRIES == 3

\* the most items with a link on one page of results
MaxLinks == 10

\* the largest 'start' index the API is asked for
MaxStart == 51

_max_results_reached == total_results >= MAX_RESULTS

\* what _attempt_request can return: None after REQUEST_TRIES failed requests, or the JSON
\* of the first request that succeeds: an empty object, an object without
\* queries.nextPage, or a page of items with a next start index
attempt_request ==
    {[kind |-> "None", requests |-> REQUEST_TRIES, links |-> 0, startIndex |-> start]}
    \cup {[kind |-> "empty", requests |-> t, links |-> 0, startIndex |-> start] :
            t \in 1..REQUEST_TRIES}
    \cup {[kind |-> k, requests |-> t, links |-> n, startIndex |-> start + MaxLinks] :
            k \in {"last_page"} \cup (IF start + MaxLinks <= MaxStart THEN {"page"} ELSE {}),
            t \in 1..REQUEST_TRIES, n \in 0..MaxLinks}

\* the urls of a page returned whole
untruncated_page(urls, remaining) == urls

\* len(urls[:remaining])
truncated(urls, remaining) == IF urls <= remaining THEN urls ELSE remaining

\* next_urls lines 95-96: nothing is asked once the maximum is reached
MaxResultsReached ==
    /\ _max_results_reached
    /\ fetched' = Fetched(0, 0, "none")
    /\ UNCHANGED <<total_results, start, credentials, returned, locator_vars, unit_vars, loop_vars>>

\* next_urls lines 97-98: _fetch_urls
FetchUrls ==
    /\ ~_max_results_reached
    /\ IF ~credentials
       THEN /\ fetched' = Fetched(0, 0, "SystemExit")
            /\ UNCHANGED <<total_results, start, returned>>
       ELSE \E json_response \in attempt_request :
              IF json_response.kind \in {"None", "empty"}
              THEN /\ fetched' = Fetched(0, json_response.requests, "none")
                   /\ UNCHANGED <<total_results, start, returned>>
              ELSE IF json_response.kind = "last_page"
              THEN /\ fetched' = Fetched(0, json_response.requests, "KeyError")
                   /\ UNCHANGED <<total_results, start, returned>>
              ELSE \E urls \in {truncated(json_response.links, MAX_RESULTS - total_results)} :
                     /\ start' = json_response.startIndex
                     /\ total_results' = total_results + urls
                     /\ returned' = returned + urls
                     /\ fetched' = Fetched(urls, json_response.requests, "none")
    /\ UNCHANGED <<credentials, locator_vars, unit_vars, loop_vars>>

SearchNext ==
    \/ MaxResultsReached
    \/ FetchUrls

SearchStart == LocatorInit /\ UnitIdle /\ LoopInit /\ NewSearch /\ credentials \in BOOLEAN

Searches == SearchStart /\ [][SearchNext]_vars

----------------------------------------------------------------------------
(* main.py: the loop over the urls, with the calls of AppManager it makes.   *)
(* What the locator, the scraper and the validator do inside extract_data is *)
(* a choice here: an exception, valid data, or no valid data.                *)

\* the most urls of one run (a search gives up to MAX_RESULTS)
MaxUrls == 3

\* what the user may type when asked about the data
Feedbacks == {<<"y", "e", "s">>, <<"o", "h", " ", "y", "e", "s">>, <<"s", "k", "i", "p">>, <<"n", "o">>, <<>>}

\* main.py lines 11 and 18-19 once the while loop of a url has ended: the next url, if any
\* and the data was not accepted
after_url(valid, browsed) == IF valid \/ browsed >= MaxUrls THEN "done" ELSE "browse"

\* main.py lines 12-13 with AppManager.browse and _reset_scraper; the user may ask to skip
\* a page that shows a captcha
browse ==
    /\ pc = "browse"
    /\ url_index < MaxUrls
    /\ url_index' = url_index + 1
    /\ scraping_attempts' = 0
    /\ validator_failed' = FALSE
    /\ failures' = 0
    /\ find_attempts' = <<>>
    /\ data_valid' = FALSE
    /\ \E captcha_skip \in BOOLEAN :
          /\ skip' = captcha_skip
          /\ pc' = IF captcha_skip THEN after_url(FALSE, url_index + 1) ELSE "extract"
    /\ UNCHANGED <<page, doc, sample_strings, file, source, exc, last, scraped, unit_vars, search_vars>>

\* main.py line 15 with AppManager.extract_data: find is called with _scraping_attempts
\* and may raise; the data is valid, or the validator fails for the first or the second time
extract_data ==
    /\ pc = "extract"
    /\ find_attempts' = Append(find_attempts, scraping_attempts)
    /\ \E outcome \in {"raised", "valid", "invalid"} :
          IF outcome = "raised"
          THEN /\ pc' = "crashed"
               /\ UNCHANGED <<validator_failed, scraped, skip, failures>>
          ELSE IF outcome = "valid"
          THEN /\ pc' = "validate"
               /\ scraped' = TRUE
               /\ skip' = FALSE
               /\ UNCHANGED <<validator_failed, failures>>
          ELSE /\ pc' = "validate"
               /\ scraped' = FALSE
               /\ failures' = failures + 1
               /\ validator_failed' = TRUE
               /\ skip' = validator_failed
    /\ UNCHANGED <<page, doc, scraping_attempts, sample_strings, file, source, exc, last, url_index,
                   data_valid, unit_vars, search_vars>>

max_attempts_exceeded(attempts) == attempts > MAX_USER_VALIDATIONS_PER_WEBSITE

\* user_validates, line 124: this validation is the last one of the url
max_attempts(attempts) == attempts >= MAX_USER_VALIDATIONS_PER_WEBSITE

\* user_validates, lines 126-142: what it returns, for the feedback typed when data is shown
\* and without data
validated(feedback, last_attempt) ==
    [data_valid |-> contains(lower(feedback), <<"y", "e", "s">>),
     max_attempts |-> last_attempt \/ lower(feedback) = <<"s", "k", "i", "p">>]

not_validated(last_attempt) == [data_valid |-> FALSE, max_attempts |-> last_attempt]

\* main.py lines 14 and 17 with AppManager.user_validates
user_validates ==
    /\ pc = "validate"
    /\ IF skip
       THEN /\ data_valid' = FALSE
            /\ skip' = TRUE
            /\ pc' = after_url(FALSE, url_index)
            /\ UNCHANGED scraping_attempts
       ELSE /\ scraping_attempts' = scraping_attempts + 1
            /\ \E answer \in IF scraped
                              THEN {validated(f, max_attempts(scraping_attempts)) : f \in Feedbacks}
                              ELSE {not_validated(max_attempts(scraping_attempts))} :
                  /\ data_valid' = answer.data_valid
                  /\ skip' = answer.max_attempts
                  /\ pc' = IF answer.data_valid \/ answer.max_attempts
                           THEN after_url(answer.data_valid, url_index) ELSE "extract"
    /\ UNCHANGED <<page, doc, sample_strings, file, source, exc, last, url_index, validator_failed,
                   scraped, find_attempts, failures, unit_vars, search_vars>>

MainNext ==
    \/ browse
    \/ extract_data
    \/ user_validates

\* the calls of main.py follow one another without end of their own
Main == Init /\ [][MainNext]_vars /\ WF_vars(MainNext)

----------------------------------------------------------------------------
(* Properties.  They are stated over `last`, the record of the call of find  *)
(* that has just returned or raised: the attempt number it was given, the    *)
(* locate steps it ran and its outcome.                                      *)

\* a call of DataLocator.find has just returned or raised
Called == last.steps # <<>>

\* the locate step that decided the call
FinalStep == last.steps[Len(last.steps)]

\* the proper ancestors of node x, as nodes of the tree
RECURSIVE Up(_, _)
Up(tree, x) == IF tree[x].parent = 0 THEN {} ELSE {tree[x].parent} \cup Up(tree, tree[x].parent)

\* the subtree of node x of a document
Region(d, x) == Subtree(d.nodes, x, d.end[x])

\* the step located a container
LocatedIn(step) == step.exc = "none" /\ step.data # None /\ step.data[1].container # 0

\* the answer holds a sequence of at least two records
HasRecords(answer) ==
    answer.present /\ answer.has_data /\ answer.data.k = "list" /\ Len(answer.data.items) > 1

\* the step got as far as looking for the anchors, and E1 or E2 is empty
EmptyAnchors(step) ==
    /\ HasRecords(step.anchors.answer)
    /\ step.anchors.data_elements1 = <<>> \/ step.anchors.data_elements2 = <<>>

\* the nearest table at or above node x, 0 if there is none
NearestTable(tree, x) ==
    LET tables == {t \in Up(tree, x) \cup {x} : tree[t].name = "table"}
    IN IF tables = {} THEN 0 ELSE MaxOf(tables)

\* the row elements of a detached table
RowsOf(tree) == {k \in 2..Len(tree) : tree[k].name = "tr"}

\* a table without the rows after the n-th (rows are the table's last content here)
FirstRows(tree, n) ==
    IF Cardinality(RowsOf(tree)) <= n THEN tree
    ELSE SubSeq(tree, 1, SortedSeq(RowsOf(tree))[n + 1] - 1)

\* the child of container c on the path down to node x
PathChild(tree, c, x) == CHOOSE k \in Up(tree, x) \cup {x} : tree[k].parent = c

\* the container of the decisive step is outside every table and the two path elements
\* at index 0 are is_identical
IdenticalItems(step) ==
    /\ LocatedIn(step)
    /\ NearestTable(step.doc.nodes, step.data[1].container) = 0
    /\ is_identical_to(step.doc.nodes[PathChild(step.doc.nodes, step.data[1].container, step.data[1].element1)],
                       step.doc.nodes[PathChild(step.doc.nodes, step.data[1].container, step.data[1].element2)])

DifferentItems(step) ==
    /\ LocatedIn(step)
    /\ NearestTable(step.doc.nodes, step.data[1].container) = 0
    /\ ~is_identical_to(step.doc.nodes[PathChild(step.doc.nodes, step.data[1].container, step.data[1].element1)],
                        step.doc.nodes[PathChild(step.doc.nodes, step.data[1].container, step.data[1].element2)])

\* TEXT with the container for a text tag, else FIRST_ITEM with the element on anchor1's path
ItemSample(step, out) ==
    LET d == step.doc
        c == step.data[1].container
        item == PathChild(d.nodes, c, step.data[1].element1)
    IN /\ out.exc = "none"
       /\ IF d.nodes[item].name \in {"p", "ul", "ol", "h1", "h2", "h3", "h4", "h5", "h6"}
          THEN out.shape = "TEXT" /\ out.sample = [ref |-> c, tree |-> Region(d, c)]
          ELSE out.shape = "FIRST_ITEM" /\ out.sample = [ref |-> item, tree |-> Region(d, item)]

\* a child without its style attribute
Unstyled(tree) == [tree EXCEPT ![1].attrs = WithoutKey(@, "style")]

\* a new element with the container's tag and attributes over copies of the first child
\* of each class of children that are is_identical once the style is gone
Exemplars(d, c) ==
    LET kids == {k \in 1..Len(d.nodes) : d.nodes[k].parent = c}
        same(j, k) == is_identical_to(Unstyled(<<d.nodes[j]>>)[1], Unstyled(<<d.nodes[k]>>)[1])
        firsts == SortedSeq({k \in kids : ~\E j \in kids : j < k /\ same(j, k)})
    IN append_all(<<Node(0, d.nodes[c].name, d.nodes[c].attrs, None)>>, 1,
                  [i \in 1..Len(firsts) |-> Unstyled(Region(d, firsts[i]))])

\* C1: for every pair of nodes handed to find_common_ancestor, the result is not None, is
\* a proper ancestor of both nodes, and no proper descendant of it is an ancestor of both
C1_NearestCommonAncestor ==
    \A s \in 1..Len(last.steps) : \A k \in 1..Len(last.steps[s].trace.candidates) :
        LET tree == last.steps[s].doc.nodes
            c == last.steps[s].trace.candidates[k]
            common == Up(tree, c.element1) \cap Up(tree, c.element2)
        IN /\ c.container # 0
           /\ c.container \in common
           /\ \A o \in common : c.container \notin Up(tree, o)

\* C2 as stated: whenever a locate step finds E1 or E2 empty, that step yields no
\* candidate and the call of find ends with DATA_NOT_FOUND without an exception
C2_EmptyAnchorsNotFound ==
    \A s \in 1..Len(last.steps) :
        EmptyAnchors(last.steps[s]) =>
            /\ last.steps[s].exc = "none" /\ last.steps[s].data = None
            /\ last.out.exc = "none" /\ last.out.shape = "DATA_NOT_FOUND"

\* C2 amended: a locate step that finds E1 or E2 empty yields no candidate and raises
\* nothing; the call ends with DATA_NOT_FOUND when that step is the last one of the call,
\* and a step that is not the last was followed by the step on the merged documents
C2_EmptyAnchorsNotFoundInLastStep ==
    \A s \in 1..Len(last.steps) :
        EmptyAnchors(last.steps[s]) =>
            /\ last.steps[s].exc = "none" /\ last.steps[s].data = None
            /\ IF s = Len(last.steps)
               THEN last.out.exc = "none" /\ last.out.shape = "DATA_NOT_FOUND"
                    /\ last.out.sample = [ref |-> FinalStep.doc.body,
                                          tree |-> Region(FinalStep.doc, FinalStep.doc.body)]
               ELSE s = 1 /\ Len(last.steps) = 2

\* C2 witness: the first record of the answer is {} (E1 is empty), the step was the last
\* of the call and the call ended with DATA_NOT_FOUND
C2_Witness ==
    /\ Called
    /\ HasRecords(FinalStep.anchors.answer)
    /\ FinalStep.anchors.answer.data.items[1].items = <<>>
    /\ FinalStep.anchors.data_elements1 = <<>>
    /\ FinalStep.anchors.data_elements2 # <<>>
    /\ last.out.shape = "DATA_NOT_FOUND"

\* C3: when the answer that decides the call is absent, has no 'data', holds fewer than
\* two records or holds something else than a sequence of records, find raises nothing
\* and returns the body of the document with DATA_NOT_FOUND
C3_DegenerateAnswerNotFound ==
    (Called /\ ~HasRecords(FinalStep.anchors.answer)) =>
        /\ last.out.exc = "none"
        /\ last.out.shape = "DATA_NOT_FOUND"
        /\ last.out.sample = [ref |-> FinalStep.doc.body, tree |-> Region(FinalStep.doc, FinalStep.doc.body)]

\* C4: with attempt number <= 1 and a container that is a table or lies in one, find
\* returns TABLE with a copy of the nearest such table that keeps its first
\* min(15, total) rows in order; the document keeps the table whole
C4_TableSample ==
    (Called /\ last.attempts <= 1 /\ LocatedIn(FinalStep)
       /\ NearestTable(FinalStep.doc.nodes, FinalStep.data[1].container) # 0) =>
        LET table == NearestTable(FinalStep.doc.nodes, FinalStep.data[1].container)
        IN /\ last.out.exc = "none"
           /\ last.out.shape = "TABLE"
           /\ last.out.sample = [ref |-> 0, tree |-> FirstRows(Region(FinalStep.doc, table), TABLE_ROWS)]
           /\ Cardinality(RowsOf(last.out.sample.tree))
                = MinOf({TABLE_ROWS, Cardinality(RowsOf(Region(FinalStep.doc, table)))})
           /\ doc = FinalStep.doc

\* C4 witness: a table of more than 15 rows was located on attempt 0 or 1, the sample
\* holds 15 rows and the table of the document still holds them all
C4_Witness ==
    /\ Called
    /\ last.attempts <= 1
    /\ last.out.shape = "TABLE"
    /\ Cardinality(RowsOf(last.out.sample.tree)) = TABLE_ROWS
    /\ Cardinality({k \in 1..Len(doc.nodes) : doc.nodes[k].name = "tr"}) > TABLE_ROWS
    /\ doc = FinalStep.doc

\* C5 as stated: whatever the attempt number, when no table encloses the container and
\* the index-0 path elements are is_identical, find returns TEXT with the container for a
\* text tag and FIRST_ITEM with the element on anchor1's path otherwise
C5_IdenticalItems ==
    (Called /\ IdenticalItems(FinalStep)) => ItemSample(FinalStep, last.out)

\* C5 amended: the same with attempt number <= 1
C5_IdenticalItemsBeforeRetry ==
    (Called /\ last.attempts <= 1 /\ IdenticalItems(FinalStep)) => ItemSample(FinalStep, last.out)

\* C5 witness: on attempt 0 or 1 the items of the container are identical paragraphs
\* and find returned TEXT with the container
C5_Witness ==
    /\ Called
    /\ last.attempts <= 1
    /\ IdenticalItems(FinalStep)
    /\ last.out.shape = "TEXT"
    /\ last.out.sample.ref = FinalStep.data[1].container
    /\ FinalStep.doc.nodes[FinalStep.data[1].element1].name = "p"
    /\ FinalStep.data[1].element1 # FinalStep.data[1].element2

\* C6: with attempt number <= 1, when no table encloses the container and the index-0
\* path elements are not is_identical, find returns DISTINCT_ITEMS with a new element of
\* the container's tag and attributes whose children are copies of the first exemplar of
\* each class of children that are is_identical after the removal of the style
C6_DistinctItems ==
    (Called /\ last.attempts <= 1 /\ DifferentItems(FinalStep)) =>
        /\ last.out.exc = "none"
        /\ last.out.shape = "DISTINCT_ITEMS"
        /\ last.out.sample = [ref |-> 0, tree |-> Exemplars(FinalStep.doc, FinalStep.data[1].container)]

\* C7: with a located container and attempt number > 1, find returns that container with
\* CONTAINER, whatever its structure; with attempt number 0 or 1 the shape is never
\* CONTAINER
C7_RawContainer ==
    Called =>
        /\ (last.attempts > 1 /\ LocatedIn(FinalStep)) =>
              /\ last.out.exc = "none"
              /\ last.out.shape = "CONTAINER"
              /\ last.out.sample = [ref |-> FinalStep.data[1].container,
                                    tree |-> Region(FinalStep.doc, FinalStep.data[1].container)]
        /\ last.attempts <= 1 => last.out.shape # "CONTAINER"

\* C7 witness: on attempt 2 or 3 the located container is a table with rows and find
\* returned the table itself with CONTAINER
C7_Witness ==
    /\ Called
    /\ last.attempts > 1
    /\ LocatedIn(FinalStep)
    /\ FinalStep.doc.nodes[FinalStep.data[1].container].name = "table"
    /\ last.out.shape = "CONTAINER"
    /\ last.out.sample.ref = FinalStep.data[1].container

\* C8: every call of find that returns another shape than DATA_NOT_FOUND has written,
\* during the call, the region chosen in the call (the table for TABLE, else the
\* container) to '<file_name>.html'
C8_RegionSaved ==
    (Called /\ last.out.exc = "none" /\ last.out.shape # "DATA_NOT_FOUND") =>
        /\ last.out.saved
        /\ file = IF last.out.shape = "TABLE"
                  THEN Region(FinalStep.doc, NearestTable(FinalStep.doc.nodes, FinalStep.data[1].container))
                  ELSE Region(FinalStep.doc, FinalStep.data[1].container)

\* C9: _filter_wrappers removes candidate A exactly when another candidate B has the
\* proportion of A and a container that is a proper descendant node of A's container
C9_WrapperFilter ==
    \A s \in 1..Len(last.steps) :
        LET t == last.steps[s].trace
            tree == last.steps[s].doc.nodes
            wrapped(a) == \E b \in 1..Len(t.scored) :
                             /\ b # a
                             /\ FloatEq(t.scored[a].proportion, t.scored[b].proportion)
                             /\ t.scored[a].container \in Up(tree, t.scored[b].container)
            inner == SortedSeq({a \in 1..Len(t.scored) : ~wrapped(a)})
        IN t.stage \in {"empty", "max"} => t.kept = [k \in 1..Len(inner) |-> t.scored[inner[k]]]

\* C10: _find_data_container computes a common ancestor for at most 1000 pairs, and when
\* |E1| x |E2| <= 1000 for every pair of a node of E1 and a node of E2 exactly once
C10_EveryPairOnce ==
    \A s \in 1..Len(last.steps) :
        LET a == last.steps[s].anchors
            t == last.steps[s].trace
            E1 == {a.data_elements1[i] : i \in 1..Len(a.data_elements1)}
            E2 == {a.data_elements2[i] : i \in 1..Len(a.data_elements2)}
        IN t.stage # "none" =>
             /\ Len(t.candidates) <= MAX_PAIRS
             /\ Cardinality(E1) * Cardinality(E2) <= MAX_PAIRS =>
                  \A x \in E1 : \A y \in E2 :
                     Cardinality({k \in 1..Len(t.candidates) :
                                     t.candidates[k].element1 = x /\ t.candidates[k].element2 = y}) = 1

Applied(fn) == result.applied /\ input.fn = fn

\* the strings of the str and number leaves of a value in traversal order; a boolean, a
\* null contribute nothing
RECURSIVE StringAndNumberLeaves(_)
StringAndNumberLeaves(item) ==
    IF item.k = "str" THEN <<item.s>>
    ELSE IF item.k = "num" THEN <<str_int(item.n)>>
    ELSE IF item.k \in {"dict", "list"}
         THEN FlattenSeq([i \in 1..Len(item.items) |-> StringAndNumberLeaves(item.items[i])])
    ELSE <<>>

\* C12: _extract_values returns, in traversal order, the string of every str and number
\* leaf under nested dicts and lists, and nothing for a boolean or any other leaf
C12_FlattenedLeaves ==
    Applied("extract_values") => result.value = StringAndNumberLeaves(input.item)

\* the two tags have the same name, and every attribute but id is present in both or in
\* neither, with the same value
SameButId(a, b) ==
    /\ a.name = b.name
    /\ \A k \in ((DOMAIN a.attrs) \cup (DOMAIN b.attrs)) \ {"id"} :
          k \in DOMAIN a.attrs /\ k \in DOMAIN b.attrs /\ a.attrs[k] = b.attrs[k]

\* C13: is_identical_to is reflexive and symmetric, true for two tags that differ at most
\* in the presence or value of id, false for two tags that differ in the name or in the
\* presence or value of another attribute
C13_IdenticalButId ==
    Applied("is_identical_to") =>
        /\ input.self = input.other => result.value
        /\ result.value = is_identical_to(input.other, input.self)
        /\ result.value = SameButId(input.self, input.other)

\* C13 witness: two tags that differ only in the id (present in one, absent in the
\* other) were found identical
C13_Witness ==
    /\ Applied("is_identical_to")
    /\ "id" \in DOMAIN input.self.attrs
    /\ "id" \notin DOMAIN input.other.attrs
    /\ "class" \in DOMAIN input.self.attrs
    /\ result.value

\* C14: a.is_descendant_of(b) is true exactly when a and b are different nodes and a lies
\* in the subtree below b; equal copies of a inside b's subtree do not count
C14_DescendantNode ==
    Applied("is_descendant_of") =>
        result.value = (input.self # input.other /\ input.other \in Up(input.doc.nodes, input.self))

\* C15: for a node n strictly below the boundary b, find_ancestors(n, b) raises nothing
\* and returns the path from the child of b down to n: b is not in it, each element is
\* the parent of the next, and its length is the depth of n minus the depth of b
C15_PathBelowBoundary ==
    (Applied("find_ancestors") /\ input.other \in Up(input.doc.nodes, input.self)) =>
        LET tree == input.doc.nodes
            path == result.value.path
        IN /\ result.value.exc = "none"
           /\ Len(path) = Cardinality(Up(tree, input.self)) - Cardinality(Up(tree, input.other))
           /\ tree[path[1]].parent = input.other
           /\ path[Len(path)] = input.self
           /\ \A k \in 1..(Len(path) - 1) : tree[path[k + 1]].parent = path[k]
           /\ \A k \in 1..Len(path) : path[k] # input.other

\* C15 witness: the path from the body down to a list item two levels below its child
C15_Witness ==
    /\ Applied("find_ancestors")
    /\ input.other = input.doc.body
    /\ input.doc.nodes[input.self].name = "li"
    /\ result.value.exc = "none"
    /\ Len(result.value.path) = 3

\* C16: find_distinct_children returns children of the node in document order, no two of
\* them is_identical, every child is_identical to one of them, and each of them is the
\* first child of its class
C16_FirstOfEachClass ==
    Applied("find_distinct_children") =>
        LET tree == input.tree
            kids == {k \in 1..Len(tree) : tree[k].parent = 1}
            kept == result.value
        IN /\ \A k \in 1..Len(kept) : kept[k] \in kids
           /\ \A j, k \in 1..Len(kept) : j < k => kept[j] < kept[k]
           /\ \A j, k \in 1..Len(kept) : j # k => ~is_identical_to(tree[kept[j]], tree[kept[k]])
           /\ \A c \in kids : \E k \in 1..Len(kept) : is_identical_to(tree[c], tree[kept[k]])
           /\ \A k \in 1..Len(kept) :
                 \A c \in kids : c < kept[k] => ~is_identical_to(tree[c], tree[kept[k]])

\* C16 witness: the children [p.test, p.test, span, p.different, span] gave
\* [p.test, span, p.different], the first, third and fourth child
C16_Witness ==
    /\ Applied("find_distinct_children")
    /\ [k \in 2..Len(input.tree) |-> <<input.tree[k].name, input.tree[k].attrs>>]
         = [k \in 2..6 |-> <<<<"p", Attr("class", "test")>>, <<"p", Attr("class", "test")>>,
                               <<"span", NoAttrs>>, <<"p", Attr("class", "different")>>,
                               <<"span", NoAttrs>>>>[k - 1]]
    /\ result.value = <<2, 4, 5>>

\* the children of the body of a parsed document, each as a tree of its own
BodyChildren(tree) ==
    IF BodyOf(tree) = 0 THEN <<>>
    ELSE [k \in 1..Len(children(tree, BodyOf(tree))) |-> copy(tree, children(tree, BodyOf(tree))[k])]

\* C17: _combine_documents returns a tree whose body children are those of the main
\* document followed by copies of the body children of each secondary document in input
\* order; a secondary document without body adds nothing and the merge goes on after it
C17_BodiesConcatenated ==
    Applied("combine_documents") =>
        /\ result.value.exc = "none"
        /\ BodyChildren(result.value.tree)
             = FlattenSeq([k \in 1..Len(input.html_list) |-> BodyChildren(input.html_list[k])])

\* C18: _copy_tag gives a copy with the name, every attribute and all descendants of the
\* source, in order
C18_CopyEqualsSource ==
    Applied("copy_tag") => result.value = copy(input.tree, input.src_tag)

\* C19: find_elements_by_text(literal) returns exactly the nodes below the body whose
\* own direct text, trimmed of surrounding whitespace, equals the literal
C19_OwnTextEqualsLiteral ==
    Applied("find_elements_by_text") =>
        {result.value[k] : k \in 1..Len(result.value)}
            = {k \in descendants(input.doc, input.doc.body) :
                 /\ input.doc.nodes[k].text # None
                 /\ strip(input.doc.nodes[k].text[1]) = input.text}

\* C20: over the calls of next_urls on one Search object the urls returned in total never
\* exceed MAX_RESULTS, and once MAX_RESULTS urls have been returned every later call
\* returns no url and sends no request
C20_NeverMoreThanMaxResults ==
    /\ [](returned <= MAX_RESULTS)
    /\ [][returned = MAX_RESULTS =>
            fetched' = Fetched(0, 0, "none") /\ returned' = returned]_vars

\* C20: a call made after MAX_RESULTS urls were returned
C20_Witness ==
    returned = MAX_RESULTS /\ fetched = Fetched(0, 0, "none")

\* the container nodes of a list of candidates
Containers(data) == {data[k].container : k \in 1..Len(data)}

\* C21: _filter_unique_containers keeps exactly one candidate per container node:
\* candidates with the same container node collapse to one, and two different container
\* nodes are both kept, also when they are equal in tag, attributes and content
C21_OnePerContainerNode ==
    \A s \in 1..Len(last.steps) :
        LET t == last.steps[s].trace
        IN t.stage # "none" =>
             /\ Containers(t.unique) = Containers(t.candidates)
             /\ Len(t.unique) = Cardinality(Containers(t.candidates))

\* the pooled strings that occur, in any case, in the full text of container c
FoundIn(d, c, pool) ==
    {i \in 1..Len(pool) : contains(lower(TagText(d.nodes, c, d.end[c])), lower(pool[i]))}

\* C22: _filter_data keeps, in order, exactly the candidates whose proportion is above
\* 0.35, the proportion being the number of pooled strings found in the container's text
\* over the size of the pool; it lies between 0 and 1, and exactly 0.35 is dropped
C22_KeptAboveThreshold ==
    Applied("filter_data") =>
        LET found(i) == Cardinality(FoundIn(input.doc, input.data[i].container, input.pool))
            n == Len(input.pool)
            keep == SortedSeq({i \in 1..Len(input.data) : 100 * found(i) > 35 * n})
        IN /\ \A i \in 1..Len(input.data) : 0 <= found(i) /\ found(i) <= n
           /\ result.value = [k \in 1..Len(keep) |->
                                [input.data[keep[k]] EXCEPT !.proportion = <<found(keep[k]), n>>]]

\* C22 witness: of 20 pooled strings 7 occur in the text of the list (one of them only
\* in upper case, one across its two items) and the list is dropped, while 4 occur in the
\* text of its first item
C22_Witness ==
    /\ Applied("filter_data")
    /\ Len(input.pool) = 20
    /\ Cardinality(FoundIn(input.doc, 4, input.pool)) = 7
    /\ Cardinality(FoundIn(input.doc, 5, input.pool)) = 4
    /\ \A k \in 1..Len(result.value) : result.value[k].container # 4

\* the distinct strings of a pool
Distinct(pool) == {pool[i] : i \in 1..Len(pool)}

\* C23: the proportion of a scored candidate is the number of distinct pooled strings found
\* in its container's text over the number of distinct pooled strings: a string that is
\* pooled several times counts once
C23_DistinctStringsCounted ==
    \A s \in 1..Len(last.steps) :
        LET step == last.steps[s]
            d == step.doc
            found(c) == {x \in Distinct(step.pool) : contains(lower(TagText(d.nodes, c, d.end[c])), lower(x))}
        IN \A k \in 1..Len(step.trace.scored) :
             FloatEq(step.trace.scored[k].proportion,
                     <<Cardinality(found(step.trace.scored[k].container)), Cardinality(Distinct(step.pool))>>)

\* C24: the pool of a DataLocator never shrinks from one call of find to the next: every
\* string pooled before the call is still pooled after it
C24_PoolAccumulates ==
    [][pc = "extract" => Distinct(sample_strings) \subseteq Distinct(sample_strings')]_vars

\* the proportion of candidate c of a step is at or below 0.35
LowCoverage(step, c) == ~AboveThreshold(proportion_of(step.doc, c.container, step.pool))

\* C25: when every candidate of the locate step that decides the call has a proportion at
\* or below 0.35, whether one or several are left after deduplication, the step returns
\* a candidate without container and find returns DATA_NOT_FOUND
C25_LowCoverageNotFound ==
    (Called /\ FinalStep.trace.stage # "none"
       /\ \A k \in 1..Len(FinalStep.trace.candidates) : LowCoverage(FinalStep, FinalStep.trace.candidates[k])) =>
        /\ FinalStep.data = Some(EmptyData)
        /\ last.out.exc = "none"
        /\ last.out.shape = "DATA_NOT_FOUND"

\* the place in the iteration over the pairs where container node c first came up
Discovered(candidates, c) == MinOf({k \in 1..Len(candidates) : candidates[k].container = c})

\* C26: when two or more candidates survive wrapper elimination, the candidate returned
\* is one of them, none of them has a higher proportion, and of those with its proportion
\* none has a container that was discovered earlier in the iteration over the pairs
C26_MaxProportionEarliest ==
    \A s \in 1..Len(last.steps) :
        LET t == last.steps[s].trace
        IN (t.stage = "max" /\ Len(t.kept) >= 2) =>
             /\ \E k \in 1..Len(t.kept) : t.kept[k] = t.data
             /\ \A k \in 1..Len(t.kept) :
                   /\ ~FloatLess(t.data.proportion, t.kept[k].proportion)
                   /\ FloatEq(t.data.proportion, t.kept[k].proportion) =>
                         Discovered(t.candidates, t.data.container)
                             <= Discovered(t.candidates, t.kept[k].container)

\* C27: a leaf string that is the truncation of a node's text, its first
\* MAX_STRING_LENGTH characters followed by '...', or the whole text when it is not
\* longer, finds that node
C27_TruncatedLeafFindsNode ==
    Applied("find_data_elements") =>
        \A k \in descendants(input.doc, input.doc.body) :
            (/\ input.doc.nodes[k].text # None
             /\ short_text(strip(input.doc.nodes[k].text[1]), MAX_STRING_LENGTH) = input.sample_data.items[1].s)
                => \E e \in 1..Len(result.value.data_elements) : result.value.data_elements[e] = k

\* C28: _filter_wrappers returns at least one candidate of every non-empty list of
\* candidates with pairwise different containers of one tree, and only candidates of the list
C28_WrappersLeaveOne ==
    Applied("filter_wrappers") =>
        /\ result.value # <<>>
        /\ \A k \in 1..Len(result.value) : \E i \in 1..Len(input.data) : input.data[i] = result.value[k]

\* C28 witness: of the body, the block in it and the list in the block, all of one
\* proportion, the list alone was kept
C28_Witness ==
    /\ Applied("filter_wrappers")
    /\ Containers(input.data) = {3, 4, 5}
    /\ \A k \in 1..3 : input.data[k].proportion = <<2, 2>>
    /\ Containers(result.value) = {5}

C30_LoopTerminates ==
    /\ [](/\ Len(find_attempts) <= MAX_USER_VALIDATIONS_PER_WEBSITE + 1
          /\ find_attempts = [k \in 1..Len(find_attempts) |-> k - 1])
    /\ [](pc = "extract" => ~data_valid /\ ~skip /\ failures < 2)
    /\ [][(pc = "validate" /\ (data_valid' \/ skip' \/ failures >= 2)) => pc' \in {"browse", "done"}]_vars
    /\ (pc = "extract" ~> pc \in {"browse", "done", "crashed"})

\* C30 witness: find was called four times on a url, the last time with attempt number 3,
\* and the loop ended with nothing validated
C30_Witness ==
    /\ find_attempts = <<0, 1, 2, 3>>
    /\ scraping_attempts = MAX_USER_VALIDATIONS_PER_WEBSITE + 1
    /\ pc \in {"browse", "done"}
    /\ ~data_valid

====
